---- MODULE Spec2Model ----
(***************************************************************************)
(* Model of scripts/fix-tenancy-types.py: main() calls                     *)
(* fix_type_annotations on four hardcoded files; each call reads the file  *)
(* as text, applies four re.sub rules in order, writes the text back and   *)
(* prints a confirmation line.                                             *)
(*                                                                         *)
(* A text is a sequence of lexemes (TLA+ strings); the text it stands for  *)
(* is their concatenation.  The lexemes are the literals of the four       *)
(* patterns and of their replacements, white space, a word character "X",  *)
(* a bare ">" and a few look-alikes.  No pattern literal can be formed     *)
(* across a lexeme boundary, so a regex match always starts and ends on    *)
(* lexeme boundaries.  A file holds the same lexemes, with line ends as    *)
(* the bytes "\r" and "\n".                                                *)
(***************************************************************************)
EXTENDS Naturals, Sequences, FiniteSets

VARIABLES
    fs,        \* file system: file number -> bytes of the file
    linesep,   \* os.linesep of the platform the script runs on
    idx,       \* which of main's calls is running (NumFiles + 1: after them)
    pc,        \* position in fix_type_annotations / main
    content,   \* the local variable `content`
    stdout,    \* lines printed so far
    events     \* file operations and prints so far, in order

vars == <<fs, linesep, idx, pc, content, stdout, events>>

---------------------------------------------------------------------------
(* Bounds of the input texts. *)
MaxLen == 5
MaxLenAll == 3

---------------------------------------------------------------------------
(* main's file list *)
NumFiles == 4

FILES ==
    << "organizations/[id]/settings/page.tsx",
       "organizations/[id]/members/page.tsx",
       "teams/[id]/settings/page.tsx",
       "design-system/page.tsx" >>

\* file_path.name: the last component of each path in FILES
BaseName(k) == "page.tsx"

\* A printed line is the sequence of its parts; the emoji that starts each
\* message is left out.
ConfirmationLine(k) == <<"Fixed type annotations in", BaseName(k)>>

\* print("\n...All type annotations fixed!"): the message starts with a
\* newline, so it is an empty line followed by the summary line.
FinalOutput == << <<>>, <<"All type annotations fixed!">> >>

---------------------------------------------------------------------------
(* Lexemes *)
InputAnn    == "onChange={(e: React.ChangeEvent<HTMLInputElement>)"
TextareaAnn == "onChange={(e: React.ChangeEvent<HTMLTextareaElement>)"

\* \s of Python's re on str
Space == {" ", "\n", "\r", "\t"}

\* lexemes whose last character is a word character (\w)
WordEnd == {"X", "<Textarea", "<Input", "{members", "items", "teamMembers"}

\* lexemes that contain the character '>'
HasGt == {">", "=>", InputAnn, TextareaAnn}

\* Variant: the alternation also names another setter.
Rule2CalleeWide == {"setNewMemberUserId(", "handleChange(", "setValue("}

\* (setNewMemberUserId|handleChange)\(
Rule2Callee == {"setNewMemberUserId(", "handleChange("}

---------------------------------------------------------------------------
(* Text-mode file I/O: open(..., 'r'/'w', encoding='utf-8'), newline=None *)

\* Reading translates "\r\n" and "\r" to "\n" (universal newlines).
RECURSIVE TranslateIn(_)
TranslateIn(b) ==
    IF b = <<>> THEN <<>>
    ELSE IF Head(b) = "\r"
         THEN <<"\n">> \o TranslateIn(IF Len(b) >= 2 /\ b[2] = "\n"
                                       THEN SubSeq(b, 3, Len(b))
                                       ELSE Tail(b))
         ELSE <<Head(b)>> \o TranslateIn(Tail(b))

\* Writing translates each "\n" to os.linesep.
RECURSIVE TranslateOut(_, _)
TranslateOut(t, sep) ==
    IF t = <<>> THEN <<>>
    ELSE (IF Head(t) = "\n" THEN sep ELSE <<Head(t)>>) \o TranslateOut(Tail(t), sep)

LineSeps == { <<"\n">>, <<"\r", "\n">> }

---------------------------------------------------------------------------
(* re.sub: scan left to right; at a match emit the replacement and go on  *)
(* after the match, otherwise copy one lexeme.                            *)

\* \s* from position i: the first position at or after i that is not space
RECURSIVE SkipSpace(_, _)
SkipSpace(s, i) ==
    IF i <= Len(s) /\ s[i] \in Space THEN SkipSpace(s, i + 1) ELSE i

\* Variant: the pattern without its leading \b.
Match1EndNoBoundary(s, i) ==
    IF s[i] = "onError:"
    THEN LET j == SkipSpace(s, i + 1) IN
         IF j <= Len(s) /\ s[j] = "(error)"
         THEN LET k == SkipSpace(s, j + 1) IN
              IF k <= Len(s) /\ s[k] = "=>" THEN k + 1 ELSE 0
         ELSE 0
    ELSE 0

\* Rule 1: r'\bonError:\s*\(error\)\s*=>'.  The position after the match
\* that starts at i, or 0.
Match1End(s, i) ==
    IF s[i] = "onError:" /\ (i = 1 \/ s[i - 1] \notin WordEnd)
    THEN LET j == SkipSpace(s, i + 1) IN
         IF j <= Len(s) /\ s[j] = "(error)"
         THEN LET k == SkipSpace(s, j + 1) IN
              IF k <= Len(s) /\ s[k] = "=>" THEN k + 1 ELSE 0
         ELSE 0
    ELSE 0

\* 'onError: (error: Error) =>'
Repl1 == <<"onError:", " ", "(error: Error)", " ", "=>">>

RECURSIVE Sub1(_, _)
Sub1(s, i) ==
    IF i > Len(s) THEN <<>>
    ELSE LET e == Match1End(s, i) IN
         IF e > 0 THEN Repl1 \o Sub1(s, e) ELSE <<s[i]>> \o Sub1(s, i + 1)

Rule1(s) == Sub1(s, 1)

\* Rule 2: r'onChange=\{(\(e\))\s*=>\s*(setNewMemberUserId|handleChange)\('
Match2End(s, i) ==
    IF s[i] = "onChange={(e)"
    THEN LET j == SkipSpace(s, i + 1) IN
         IF j <= Len(s) /\ s[j] = "=>"
         THEN LET k == SkipSpace(s, j + 1) IN
              IF k <= Len(s) /\ s[k] \in Rule2Callee THEN k + 1 ELSE 0
         ELSE 0
    ELSE 0

\* r'onChange={(e: React.ChangeEvent<HTMLInputElement>) => \2('
Repl2(callee) == <<InputAnn, " ", "=>", " ", callee>>

RECURSIVE Sub2(_, _)
Sub2(s, i) ==
    IF i > Len(s) THEN <<>>
    ELSE LET e == Match2End(s, i) IN
         IF e > 0 THEN Repl2(s[e - 1]) \o Sub2(s, e) ELSE <<s[i]>> \o Sub2(s, i + 1)

Rule2(s) == Sub2(s, 1)

\* Variant: '.*' with DOTALL in place of '[^>]*'.
Reach3AnyChar(s, i) ==
    { j \in (i + 1)..Len(s) : s[j] = "onChange={(e)" }

\* Rule 3: r'(<Textarea[^>]*onChange=\{)\(e\)'.  [^>]* is greedy: of the
\* handlers that follow s[i] with no '>' in between, the last one matches.
Reach3(s, i) ==
    { j \in (i + 1)..Len(s) :
        /\ s[j] = "onChange={(e)"
        /\ \A m \in (i + 1)..(j - 1) : s[m] \notin HasGt }

Last3(s, i) == CHOOSE j \in Reach3(s, i) : \A m \in Reach3(s, i) : m <= j

Match3End(s, i) ==
    IF s[i] = "<Textarea" /\ Reach3(s, i) # {} THEN Last3(s, i) + 1 ELSE 0

\* r'\1(e: React.ChangeEvent<HTMLTextareaElement>)'
Repl3(s, i, e) == SubSeq(s, i, e - 2) \o <<TextareaAnn>>

RECURSIVE Sub3(_, _)
Sub3(s, i) ==
    IF i > Len(s) THEN <<>>
    ELSE LET e == Match3End(s, i) IN
         IF e > 0 THEN Repl3(s, i, e) \o Sub3(s, e) ELSE <<s[i]>> \o Sub3(s, i + 1)

Rule3(s) == Sub3(s, 1)

\* Variant: the pattern accepts any receiver of .map, not only '{members'.
Match4EndAnyReceiver(s, i) ==
    IF s[i] \in {"{members", "items", "teamMembers"}
       /\ i + 1 <= Len(s) /\ s[i + 1] = ".map((member)"
    THEN LET j == SkipSpace(s, i + 2) IN
         IF j <= Len(s) /\ s[j] = "=>" THEN j + 1 ELSE 0
    ELSE 0

\* Rule 4: r'{members\.map\(\(member\)\s*=>'
Match4End(s, i) ==
    IF s[i] = "{members" /\ i + 1 <= Len(s) /\ s[i + 1] = ".map((member)"
    THEN LET j == SkipSpace(s, i + 2) IN
         IF j <= Len(s) /\ s[j] = "=>" THEN j + 1 ELSE 0
    ELSE 0

\* '{members.map((member: any) =>'
Repl4 == <<"{members", ".map((member: any)", " ", "=>">>

RECURSIVE Sub4(_, _)
Sub4(s, i) ==
    IF i > Len(s) THEN <<>>
    ELSE LET e == Match4End(s, i) IN
         IF e > 0 THEN Repl4 \o Sub4(s, e) ELSE <<s[i]>> \o Sub4(s, i + 1)

Rule4(s) == Sub4(s, 1)

\* The four re.sub calls in the order of the code.
FixAll(t) == Rule4(Rule3(Rule2(Rule1(t))))

---------------------------------------------------------------------------
(* fix_type_annotations(file_path), one action per statement *)

\* with open(file_path, 'r', encoding='utf-8') as f: content = f.read()
ReadFile ==
    /\ pc = "read"
    /\ content' = TranslateIn(fs[idx])
    /\ events' = Append(events, <<"read", idx, TranslateIn(fs[idx])>>)
    /\ pc' = "rule1"
    /\ UNCHANGED <<fs, linesep, idx, stdout>>

\* Variant: the failure is caught and main goes on with the next file.
ReadFailSkip ==
    /\ pc = "read"
    /\ events' = Append(events, <<"read_failed", idx, <<>>>>)
    /\ idx' = idx + 1
    /\ pc' = IF idx < NumFiles THEN "read" ELSE "final"
    /\ UNCHANGED <<fs, linesep, content, stdout>>

\* open or read raises (missing file, permission, invalid UTF-8): nothing
\* catches it, the process ends.
ReadFail ==
    /\ pc = "read"
    /\ events' = Append(events, <<"read_failed", idx, <<>>>>)
    /\ pc' = "crashed"
    /\ UNCHANGED <<fs, linesep, idx, content, stdout>>

ApplyRule1 ==
    /\ pc = "rule1"
    /\ content' = Rule1(content)
    /\ pc' = "rule2"
    /\ UNCHANGED <<fs, linesep, idx, stdout, events>>

\* Variant: the textarea substitution runs before the input one.
ApplyRule2AfterRule3 ==
    /\ pc = "rule2"
    /\ content' = Rule2(Rule3(content))
    /\ pc' = "rule3"
    /\ UNCHANGED <<fs, linesep, idx, stdout, events>>

ApplyRule2 ==
    /\ pc = "rule2"
    /\ content' = Rule2(content)
    /\ pc' = "rule3"
    /\ UNCHANGED <<fs, linesep, idx, stdout, events>>

ApplyRule3 ==
    /\ pc = "rule3"
    /\ content' = Rule3(content)
    /\ pc' = "rule4"
    /\ UNCHANGED <<fs, linesep, idx, stdout, events>>

ApplyRule4 ==
    /\ pc = "rule4"
    /\ content' = Rule4(content)
    /\ pc' = "write"
    /\ UNCHANGED <<fs, linesep, idx, stdout, events>>

\* Variant: the file is written only when the text has changed.
WriteFileIfChanged ==
    /\ pc = "write"
    /\ IF content # TranslateIn(fs[idx])
       THEN /\ fs' = [fs EXCEPT ![idx] = TranslateOut(content, linesep)]
            /\ events' = Append(events, <<"write", idx, content>>)
       ELSE UNCHANGED <<fs, events>>
    /\ pc' = "print"
    /\ UNCHANGED <<linesep, idx, content, stdout>>

\* with open(file_path, 'w', encoding='utf-8') as f: f.write(content)
\* There is no comparison with the text that was read.
WriteFile ==
    /\ pc = "write"
    /\ fs' = [fs EXCEPT ![idx] = TranslateOut(content, linesep)]
    /\ events' = Append(events, <<"write", idx, content>>)
    /\ pc' = "print"
    /\ UNCHANGED <<linesep, idx, content, stdout>>

\* open(file_path, 'w') raises: the file is not touched.
OpenWriteFail ==
    /\ pc = "write"
    /\ events' = Append(events, <<"write_failed", idx, <<>>>>)
    /\ pc' = "crashed"
    /\ UNCHANGED <<fs, linesep, idx, content, stdout>>

\* The file was truncated by open(..., 'w') and the write or the flush on
\* close raises: the file holds some prefix of what was to be written.
WriteFail ==
    /\ pc = "write"
    /\ \E n \in 0..Len(TranslateOut(content, linesep)) :
          fs' = [fs EXCEPT ![idx] = SubSeq(TranslateOut(content, linesep), 1, n)]
    /\ events' = Append(events, <<"write_failed", idx, <<>>>>)
    /\ pc' = "crashed"
    /\ UNCHANGED <<linesep, idx, content, stdout>>

\* Variant: main lacks its third call (teams settings).
PrintConfirmationDropsCall ==
    /\ pc = "print"
    /\ stdout' = Append(stdout, ConfirmationLine(idx))
    /\ events' = Append(events, <<"print", idx, <<>>>>)
    /\ idx' = IF idx = 2 THEN idx + 2 ELSE idx + 1
    /\ pc' = IF idx < NumFiles THEN "read" ELSE "final"
    /\ UNCHANGED <<fs, linesep, content>>

\* print(f"... Fixed type annotations in {file_path.name}"), then return to
\* main, whose next statement is the next call or the final print.
PrintConfirmation ==
    /\ pc = "print"
    /\ stdout' = Append(stdout, ConfirmationLine(idx))
    /\ events' = Append(events, <<"print", idx, <<>>>>)
    /\ idx' = idx + 1
    /\ pc' = IF idx < NumFiles THEN "read" ELSE "final"
    /\ UNCHANGED <<fs, linesep, content>>

\* print("\n... All type annotations fixed!")
PrintFinal ==
    /\ pc = "final"
    /\ stdout' = stdout \o FinalOutput
    /\ events' = Append(events, <<"print_final", 0, <<>>>>)
    /\ pc' = "done"
    /\ UNCHANGED <<fs, linesep, idx, content>>

Next ==
    \/ ReadFile
    \/ ReadFail
    \/ ApplyRule1
    \/ ApplyRule2
    \/ ApplyRule3
    \/ ApplyRule4
    \/ WriteFile
    \/ OpenWriteFail
    \/ WriteFail
    \/ PrintConfirmation
    \/ PrintFinal

---------------------------------------------------------------------------
(* Initial states: main is about to make its first call; the files hold   *)
(* texts over a set of lexemes.                                           *)

Texts(alphabet, n) == UNION { [1..m -> alphabet] : m \in 0..n }

\* The first file holds any text of `texts`, the other three any of `rest`.
InitWith(texts, rest) ==
    /\ \E t \in texts : \E r \in [2..NumFiles -> rest] :
          fs = [k \in 1..NumFiles |-> IF k = 1 THEN t ELSE r[k]]
    /\ linesep \in LineSeps
    /\ idx = 1
    /\ pc = "read"
    /\ content = <<>>
    /\ stdout = <<>>
    /\ events = <<>>

DriverTexts ==
    { <<>>,
      <<"onChange={(e)", " ", "=>", " ", "handleChange(">>,
      <<"X", "\n", "onError:", "(error)", "=>">> }

Init == InitWith(DriverTexts, DriverTexts)

Spec == Init /\ [][Next]_vars

\* The first file holds any text of at most MaxLen lexemes of one rule's
\* vocabulary; the other files are empty.
Alphabet1 == {"onError:", "(error)", "=>", " ", "\n", "X"}
InitRule1 == InitWith(Texts(Alphabet1, MaxLen), {<<>>})
SpecRule1 == InitRule1 /\ [][Next]_vars

\* The file of the end-to-end scenario of rule 2.
E2EIn == <<"onChange={(e)", " ", "=>", " ", "handleChange(", "e)}">>

Alphabet2 ==
    {"onChange={(e)", "=>", " ", "handleChange(", "setNewMemberUserId(", "setValue("}
InitRule2 == InitWith(Texts(Alphabet2, MaxLen) \cup {E2EIn}, {<<>>})
SpecRule2 == InitRule2 /\ [][Next]_vars

Alphabet3 == {"<Textarea", "onChange={(e)", "=>", "handleChange(", "X", ">"}
InitRule3 == InitWith(Texts(Alphabet3, MaxLen), {<<>>})
SpecRule3 == InitRule3 /\ [][Next]_vars

Alphabet4 == {"{members", "teamMembers", "items", ".map((member)", "=>", " "}
InitRule4 == InitWith(Texts(Alphabet4, MaxLen), {<<>>})
SpecRule4 == InitRule4 /\ [][Next]_vars

\* Shorter texts over the vocabulary of all four rules and both line-end
\* bytes.
AlphabetAll ==
    {"\r", "\n", "X", "onError:", "(error)", "=>", "onChange={(e)",
     "handleChange(", "<Textarea", "{members", ".map((member)"}
InitAll == InitWith(Texts(AlphabetAll, MaxLenAll), {<<>>})
SpecAll == InitAll /\ [][Next]_vars

---------------------------------------------------------------------------
(* Properties of the driver *)

Failed(i) == events[i][1] \in {"read_failed", "write_failed"}
NoFailure == \A i \in DOMAIN events : ~Failed(i)

\* The event a failure-free run has at place i: read, write, print of file
\* 1, then of file 2, ..., then the final print.
StepKind(i) == <<"read", "write", "print">>[((i - 1) % 3) + 1]
StepFile(i) == ((i - 1) \div 3) + 1
InOrder ==
    \A i \in DOMAIN events :
        IF i <= 3 * NumFiles
        THEN events[i][1] = StepKind(i) /\ events[i][2] = StepFile(i)
        ELSE i = 3 * NumFiles + 1 /\ events[i][1] = "print_final"

FourConfirmations ==
    /\ Len(stdout) >= NumFiles
    /\ \A k \in 1..NumFiles :
          stdout[k] = <<"Fixed type annotations in", "page.tsx">>

\* C2: once the read or the write of file k has failed, nothing more
\* happens: the failure is the last event, the run is over, no event is
\* about a file after k, every file before k holds the patched text that
\* was written to it, and the output is the confirmation lines of the
\* files before k and nothing else.
C2_FailFast ==
    \A i \in DOMAIN events :
        Failed(i) =>
            LET k == events[i][2] IN
            /\ i = Len(events)
            /\ pc = "crashed"
            /\ \A j \in DOMAIN events : events[j][2] <= k
            /\ \A j \in 1..(k - 1) :
                  /\ events[3 * j - 2][1] = "read"
                  /\ events[3 * j - 1] =
                        <<"write", j, FixAll(events[3 * j - 2][3])>>
                  /\ fs[j] = TranslateOut(FixAll(events[3 * j - 2][3]), linesep)
            /\ stdout = [j \in 1..(k - 1) |-> ConfirmationLine(j)]

\* A write of the third file fails after the first file was changed.
C2_Witness ==
    /\ pc = "crashed"
    /\ idx = 3
    /\ events[Len(events)][1] = "write_failed"
    /\ events[2][3] # events[1][3]

\* C3 as stated: in a failure-free run the events are read, write, print
\* of each file in the listed order, then the final print, and the output
\* is exactly four confirmation lines followed by one summary line.
C3_Original ==
    /\ NoFailure => InOrder
    /\ pc = "done" =>
          /\ Len(events) = 3 * NumFiles + 1
          /\ FourConfirmations
          /\ Len(stdout) = NumFiles + 1
          /\ stdout[NumFiles + 1] = <<"All type annotations fixed!">>

\* C3 amended: as C3, but the output is four confirmation lines, then an
\* empty line, then the summary line.
C3_OrderAndOutput ==
    /\ NoFailure => InOrder
    /\ pc = "done" =>
          /\ Len(events) = 3 * NumFiles + 1
          /\ FourConfirmations
          /\ Len(stdout) = NumFiles + 2
          /\ stdout[NumFiles + 1] = <<>>
          /\ stdout[NumFiles + 2] = <<"All type annotations fixed!">>

C3_Witness == pc = "done" /\ Len(events) = 3 * NumFiles + 1

---------------------------------------------------------------------------
(* What the patterns denote, stated without the scan: Occ<n>(s, b, e)     *)
(* says that s[b..e] is an occurrence of rule n's pattern.                *)

RECURSIVE Flatten(_)
Flatten(ss) == IF ss = <<>> THEN <<>> ELSE Head(ss) \o Flatten(Tail(ss))

AllSpace(s, a, b) == \A m \in a..b : s[m] \in {" ", "\n", "\r", "\t"}

\* The text read by the call that is running.
LastRead == events[Len(events)][3]

Occ1(s, b, e) ==
    /\ s[b] = "onError:"
    /\ (b = 1 \/ s[b - 1] \notin WordEnd)
    /\ s[e] = "=>"
    /\ \E j \in (b + 1)..(e - 1) :
          s[j] = "(error)" /\ AllSpace(s, b + 1, j - 1) /\ AllSpace(s, j + 1, e - 1)

Starts1(s, i) == \E e \in i..Len(s) : Occ1(s, i, e)
Inside1(s, i) == \E b \in 1..i : \E e \in i..Len(s) : Occ1(s, b, e)

\* s with ': Error' put after 'error' in each occurrence, nothing else.
InsertOnly1(s) ==
    [i \in 1..Len(s) |->
        IF s[i] = "(error)" /\ Inside1(s, i) THEN "(error: Error)" ELSE s[i]]

\* s with each occurrence replaced by 'onError: (error: Error) =>'.
Expected1(s) ==
    Flatten([i \in 1..Len(s) |->
        IF Starts1(s, i) THEN <<"onError:", " ", "(error: Error)", " ", "=>">>
        ELSE IF Inside1(s, i) THEN <<>> ELSE <<s[i]>>])

\* C7 as stated: rule 1 only inserts ': Error' in each matched occurrence;
\* every other character, the white space inside the match included, is
\* unchanged.
C7_Original == [][pc = "rule1" => content' = InsertOnly1(content)]_vars

\* C7 amended: rule 1 replaces each matched occurrence by
\* 'onError: (error: Error) =>' (the annotation inserted, each run of white
\* space inside the match replaced by one space) and changes nothing
\* outside the matched occurrences.
C7_Rule1 == [][pc = "rule1" => content' = Expected1(content)]_vars

C7_Witness ==
    /\ pc = "rule2"
    /\ idx = 1
    /\ LastRead = <<"onError:", "(error)", "\n", "=>">>
    /\ content = <<"onError:", " ", "(error: Error)", " ", "=>">>

---------------------------------------------------------------------------
(* Rule 2 *)

Occ2(s, b, e) ==
    /\ s[b] = "onChange={(e)"
    /\ s[e] \in {"setNewMemberUserId(", "handleChange("}
    /\ \E j \in (b + 1)..(e - 1) :
          s[j] = "=>" /\ AllSpace(s, b + 1, j - 1) /\ AllSpace(s, j + 1, e - 1)

\* the occurrence is literally 'onChange={(e) => F('
Lit2(s, b, e) == e = b + 4 /\ s[b + 1] = " " /\ s[b + 2] = "=>" /\ s[b + 3] = " "

Starts2(s, i) == \E e \in i..Len(s) : Occ2(s, i, e)
Inside2(s, i) == \E b \in 1..i : \E e \in i..Len(s) : Occ2(s, b, e)
End2(s, i) == CHOOSE e \in i..Len(s) : Occ2(s, i, e)
AllLiteral2(s) ==
    \A b \in 1..Len(s) : \A e \in b..Len(s) : Occ2(s, b, e) => Lit2(s, b, e)

\* s with '(e)' annotated in each occurrence, nothing else changed
AnnotateOnly2(s) ==
    [i \in 1..Len(s) |->
        IF Starts2(s, i)
        THEN "onChange={(e: React.ChangeEvent<HTMLInputElement>)" ELSE s[i]]

Expected2(s) ==
    Flatten([i \in 1..Len(s) |->
        IF Starts2(s, i)
        THEN <<"onChange={(e: React.ChangeEvent<HTMLInputElement>)",
               " ", "=>", " ", s[End2(s, i)]>>
        ELSE IF Inside2(s, i) THEN <<>> ELSE <<s[i]>>])

Count(s, x) == Cardinality({i \in 1..Len(s) : s[i] = x})

E2EOut ==
    <<"onChange={(e: React.ChangeEvent<HTMLInputElement>)", " ", "=>", " ",
      "handleChange(", "e)}">>

\* C6: rule 2 annotates the '(e)' of each 'onChange={(e) => F(' with F one of
\* setNewMemberUserId, handleChange, and of nothing else: where every
\* occurrence is written with single spaces only the '(e)' changes, and a
\* handler that calls another function stays as it is.  A file that holds
\* exactly 'onChange={(e) => handleChange(e)}' is rewritten to exactly the
\* annotated handler, and the confirmation line names the file.
C6_Rule2 ==
    [][ /\ pc = "rule2" =>
              /\ content' = Expected2(content)
              /\ AllLiteral2(content) => content' = AnnotateOnly2(content)
              /\ Count(content', "onChange={(e)") =
                   Cardinality({i \in 1..Len(content) :
                       content[i] = "onChange={(e)" /\ ~Starts2(content, i)})
        /\ (pc = "print" /\ events[Len(events) - 1] = <<"read", idx, E2EIn>>) =>
              /\ fs[idx] = E2EOut
              /\ stdout' = Append(stdout, <<"Fixed type annotations in", "page.tsx">>)
      ]_vars

C6_Witness ==
    /\ idx = 2
    /\ pc = "read"
    /\ events[1] = <<"read", 1, E2EIn>>
    /\ fs[1] = E2EOut
    /\ stdout = << <<"Fixed type annotations in", "page.tsx">> >>

---------------------------------------------------------------------------
(* Rule 4 *)

Occ4(s, b, e) ==
    /\ s[b] = "{members"
    /\ b + 2 <= e
    /\ s[b + 1] = ".map((member)"
    /\ s[e] = "=>"
    /\ AllSpace(s, b + 2, e - 1)

Lit4(s, b, e) == e = b + 3 /\ s[b + 2] = " "

Starts4(s, i) == \E e \in i..Len(s) : Occ4(s, i, e)
Inside4(s, i) == \E b \in 1..i : \E e \in i..Len(s) : Occ4(s, b, e)
AllLiteral4(s) ==
    \A b \in 1..Len(s) : \A e \in b..Len(s) : Occ4(s, b, e) => Lit4(s, b, e)

AnnotateOnly4(s) ==
    [i \in 1..Len(s) |->
        IF i > 1 /\ Starts4(s, i - 1) THEN ".map((member: any)" ELSE s[i]]

Expected4(s) ==
    Flatten([i \in 1..Len(s) |->
        IF Starts4(s, i) THEN <<"{members", ".map((member: any)", " ", "=>">>
        ELSE IF Inside4(s, i) THEN <<>> ELSE <<s[i]>>])

\* C9: rule 4 turns each '{members.map((member) =>' into
\* '{members.map((member: any) =>' and leaves every '.map((member)' that
\* does not directly follow '{members' as it is.
C9_Rule4 ==
    [][ pc = "rule4" =>
          /\ content' = Expected4(content)
          /\ AllLiteral4(content) => content' = AnnotateOnly4(content)
          /\ Count(content', ".map((member)") >=
               Cardinality({i \in 1..Len(content) :
                   /\ content[i] = ".map((member)"
                   /\ (i = 1 \/ content[i - 1] # "{members")})
      ]_vars

C9_Witness ==
    /\ pc = "write"
    /\ idx = 1
    /\ LastRead = <<"items", "{members", ".map((member)", " ", "=>">>
    /\ content = <<"items", "{members", ".map((member: any)", " ", "=>">>

---------------------------------------------------------------------------
(* Rule 3, the order of rules 2 and 3, and a second pass *)

\* The handler at j is an attribute of a <Textarea ...> tag: the tag opens
\* before it with the name Textarea and is not closed by a bare '>' (the
\* '>' of an arrow inside an attribute closes nothing).
InTextareaTag(s, j) ==
    \E i \in 1..(j - 1) :
        /\ s[i] = "<Textarea"
        /\ s[i + 1] # "X"
        /\ \A m \in (i + 1)..(j - 1) : s[m] \notin {">", "<Textarea"}

Claimed5(s) ==
    [j \in 1..Len(s) |->
        IF s[j] = "onChange={(e)" /\ InTextareaTag(s, j)
        THEN "onChange={(e: React.ChangeEvent<HTMLTextareaElement>)" ELSE s[j]]

\* C5 as stated: rule 3 annotates every 'onChange={(e)' that is an attribute
\* of a <Textarea ...> tag, whatever attributes precede it and however many
\* handlers the tag has, and no other '(e)'.
C5_Original == [][pc = "rule3" => content' = Claimed5(content)]_vars

\* C4 as stated: the rules applied to their own result change nothing.
C4_Original == pc = "write" => FixAll(content) = content

HandlerForms ==
    {"onChange={(e)",
     "onChange={(e: React.ChangeEvent<HTMLInputElement>)",
     "onChange={(e: React.ChangeEvent<HTMLTextareaElement>)"}

IsHandler(x) == x \in HandlerForms
Handlers(s) == SelectSeq(s, IsHandler)
Rank(s, j) == Cardinality({m \in 1..j : s[m] \in HandlerForms})

\* Both patterns match the handler at j: rule 2's starts there, and a
\* '<Textarea' precedes it with no '>' in between.
Overlap(s, j) ==
    /\ Starts2(s, j)
    /\ \E i \in 1..(j - 1) :
          s[i] = "<Textarea" /\ \A m \in (i + 1)..(j - 1) : s[m] \notin HasGt

\* C10: a handler that both rule 2 and rule 3 match ends up with the
\* HTMLInputElement annotation, with rule 3 applied first it would have the
\* HTMLTextareaElement one (so the two orders give different texts), and
\* the rules only ever turn an unannotated handler into an annotated one.
C10_Order ==
    pc = "rule4" =>
        LET s   == LastRead
            alt == Rule2(Rule3(Rule1(s)))
        IN /\ Len(Handlers(content)) = Len(Handlers(s))
           /\ \A n \in 1..Len(Handlers(s)) :
                 Handlers(s)[n] # "onChange={(e)" =>
                     Handlers(content)[n] = Handlers(s)[n]
           /\ \A j \in 1..Len(s) :
                 Overlap(s, j) =>
                     /\ Handlers(content)[Rank(s, j)] =
                          "onChange={(e: React.ChangeEvent<HTMLInputElement>)"
                     /\ Handlers(alt)[Rank(s, j)] =
                          "onChange={(e: React.ChangeEvent<HTMLTextareaElement>)"
                     /\ Rule4(alt) # Rule4(content)

C10_Witness ==
    /\ pc = "rule4"
    /\ idx = 1
    /\ LastRead = <<"<Textarea", "X", "onChange={(e)", "=>", "handleChange(">>
    /\ content = <<"<Textarea", "X",
                   "onChange={(e: React.ChangeEvent<HTMLInputElement>)",
                   " ", "=>", " ", "handleChange(">>

---------------------------------------------------------------------------
(* The write, and texts that no rule matches *)

Occ3(s, b, e) ==
    /\ s[b] = "<Textarea"
    /\ b < e
    /\ s[e] = "onChange={(e)"
    /\ \A m \in (b + 1)..(e - 1) : s[m] \notin {">", "=>"}

NoOcc1(s) == \A b \in 1..Len(s) : \A e \in b..Len(s) : ~Occ1(s, b, e)
NoOcc2(s) == \A b \in 1..Len(s) : \A e \in b..Len(s) : ~Occ2(s, b, e)
NoOcc3(s) == \A b \in 1..Len(s) : \A e \in b..Len(s) : ~Occ3(s, b, e)
NoOcc4(s) == \A b \in 1..Len(s) : \A e \in b..Len(s) : ~Occ4(s, b, e)
NoOcc(s) == NoOcc1(s) /\ NoOcc2(s) /\ NoOcc3(s) /\ NoOcc4(s)

\* C1 as stated: the file is written only if the text after the rules
\* differs from the text that was read.
C1_Original ==
    \A i \in DOMAIN events :
        events[i][1] = "write" => events[i][3] # events[i - 1][3]

\* C1 amended: every call that does not fail writes the text obtained
\* after the four rules to the file, whether or not it differs from the
\* text read; when no rule matches, the text written is the text read.
C1_AlwaysWrites ==
    pc = "print" =>
        /\ Len(events) >= 2
        /\ LET r == events[Len(events) - 1]
               w == events[Len(events)]
           IN /\ r[1] = "read" /\ r[2] = idx
              /\ w[1] = "write" /\ w[2] = idx
              /\ w[3] = content
              /\ NoOcc(r[3]) => w[3] = r[3]
              /\ fs[idx] = TranslateOut(w[3], linesep)

C1_Witness ==
    /\ pc = "print"
    /\ idx = 1
    /\ events[1] = <<"read", 1, <<"X", "onError:", "(error)">> >>
    /\ events[2] = <<"write", 1, <<"X", "onError:", "(error)">> >>

IsLineEnd(x) == x \in {"\r", "\n"}
NotLineEnd(x) == x \notin {"\r", "\n"}

RulesAreNoOps ==
    /\ (pc = "rule1" /\ NoOcc1(content)) => content' = content
    /\ (pc = "rule2" /\ NoOcc2(content)) => content' = content
    /\ (pc = "rule3" /\ NoOcc3(content)) => content' = content
    /\ (pc = "rule4" /\ NoOcc4(content)) => content' = content

\* C8 as stated: a rule leaves a text without an occurrence of its pattern
\* as it is, and a file in which no pattern occurs has the same bytes after
\* the call as before.
C8_Original ==
    [][ /\ RulesAreNoOps
        /\ (pc = "write" /\ pc' = "print" /\ NoOcc(TranslateIn(fs[idx]))) =>
              fs'[idx] = fs[idx]
      ]_vars

\* C8 amended: a rule leaves a text without an occurrence of its pattern as
\* it is, and a file in which no pattern occurs holds after the call the
\* text it held before with every line end ("\r\n", "\r" or "\n") written
\* as the platform's line separator; without line ends its bytes are the
\* same.
C8_NoOp ==
    [][ /\ RulesAreNoOps
        /\ (pc = "write" /\ pc' = "print" /\ NoOcc(TranslateIn(fs[idx]))) =>
              /\ SelectSeq(fs'[idx], NotLineEnd) = SelectSeq(fs[idx], NotLineEnd)
              /\ TranslateIn(fs'[idx]) = TranslateIn(fs[idx])
              /\ linesep = <<"\n">> => Count(fs'[idx], "\r") = 0
              /\ linesep = <<"\r", "\n">> =>
                    \A i \in 1..Len(fs'[idx]) :
                        /\ fs'[idx][i] = "\n" => (i > 1 /\ fs'[idx][i - 1] = "\r")
                        /\ fs'[idx][i] = "\r" =>
                              (i < Len(fs'[idx]) /\ fs'[idx][i + 1] = "\n")
              /\ (SelectSeq(fs[idx], IsLineEnd) = <<>>) => fs'[idx] = fs[idx]
      ]_vars

C8_Witness ==
    /\ pc = "print"
    /\ idx = 1
    /\ events[1] = <<"read", 1, <<"X", "\n", "X">> >>
    /\ fs[1] = <<"X", "\r", "\n", "X">>

====
